---- MODULE Spec2Model ----
(***************************************************************************)
(* The epoch driver of movear/models/trainer.py (main_training,            *)
(* train_one_ep and the __main__ block), one process per rank.             *)
(*                                                                         *)
(* Losses are integers in tenths (2.0 is 20).  The collectives             *)
(* (dist.barrier, MetricLogger.synchronize_between_processes, the          *)
(* reduction inside trainer.evaluate) live outside trainer.py; they are    *)
(* modelled as "nobody passes the k-th collective before every rank has    *)
(* entered it".                                                            *)
(***************************************************************************)
EXTENDS Integers, Sequences, FiniteSets, TLC

\* ---- bounds of the model
MaxWorld == 2
MaxEp == 31
MaxIters == 2
MaxAc == 3

\* ---- program constants
\* the save cadence of line 296
SaveEvery == 10
\* the initial best_val_loss_tail of line 270, 999, in tenths like every loss here
InitBestVal == 9990
\* the initial best accuracies of lines 269-270
InitBestAcc == -1

\* validation tail-losses the environment may report, in tenths
LossVals == {12, 15, 18, 20}
\* the sequence of the best-checkpoint example: 2.0, 1.5, 1.8, 1.2
Example == <<20, 15, 18, 12>>

VARIABLES
    world_size,     \* dist.get_world_size()
    local_size,     \* processes per node: local_rank = rank % local_size
    shared_fs,      \* whether args.local_out_dir_path is one directory for all nodes
    args_ep,        \* args.ep, the total number of epochs
    start_ep,       \* from auto_resume
    start_it,       \* from auto_resume
    iters_train,    \* len(ld_train)
    pc,             \* per rank: position in main_training / __main__
    ep,             \* per rank: the loop variable of "for ep in range(start_ep, args.ep)"
    it,             \* per rank: the next index log_every yields in train_one_ep
    best_val_loss_tail, \* per rank
    val_loss_tail,  \* per rank: the last value evaluate returned
    best_updated,   \* per rank
    arrived,        \* per rank: number of collectives entered
    cur_val,        \* the reduced result of the validation pass in progress
    last_ckpt,      \* per directory: the file ar-ckpt-last.pth
    best_ckpt,      \* per directory: the file ar-ckpt-best.pth
    calls,          \* per rank: g_it of every train_step call, in order
    eps_run,        \* per rank: epochs for which train_one_ep was called, in order
    evals,          \* per rank: epochs whose evaluate returned
    saved,          \* per rank: epochs whose torch.save returned
    old_best,       \* per rank: best_val_loss_tail before the last evaluate
    ex_pos,         \* per rank: validations seen if they follow Example, else -1
    ex_wr,          \* per rank: positions of Example at which the rank copied to best
    final_flush,    \* per rank: the tb_lg.flush() of line 331 was executed
    exc,            \* per rank: "none", "AttributeError" (tb_lg is None) or "external"
    finalized,      \* per rank: dist.finalize() was called
    me,             \* per rank: the MetricLogger of train_one_ep: epoch and updates
    stats_read,     \* per rank: the statistics main_training read at line 284
    last_call,      \* per rank: the arguments of the latest train_step call
    best_meta,      \* per directory: about the checkpoint ar-ckpt-best.pth holds
    pg_args,        \* args.pg, args.wp, args.pg0 and len(args.patch_nums)
    pg_run,         \* the global step and prog_si of the latest iteration
    bests,          \* the best-so-far trackers of lines 269-270
    seen            \* the per-epoch statistics the trackers were given so far

cfgvars == <<world_size, local_size, shared_fs, args_ep, start_ep, start_it, iters_train>>
vars == <<world_size, local_size, shared_fs, args_ep, start_ep, start_it, iters_train,
          pc, ep, it, best_val_loss_tail, val_loss_tail, best_updated, arrived,
          cur_val, last_ckpt, best_ckpt, calls, eps_run, evals, saved, old_best,
          ex_pos, ex_wr, final_flush, exc, finalized,
          me, stats_read, last_call, best_meta, pg_args, pg_run, bests, seen>>
\* the progressive schedule and the best-so-far trackers other than
\* best_val_loss_tail, which the actions of the driver leave aside
auxvars == <<pg_args, pg_run, bests, seen>>
\* what the actions of the driver never change besides cfgvars, and what the
\* actions that write no file never change
ghostvars == <<me, stats_read, last_call, best_meta>>

Ranks == 0 .. (world_size - 1)
Dirs == 0 .. ((world_size \div local_size) - 1)

Min(a, b) == IF a < b THEN a ELSE b

\* faulty variant: every rank is given a logger
HasTbLgOnEveryRank(r) == TRUE

\* dist.is_master(): tb_lg is a TensorboardLogger on the master, None elsewhere
HasTbLg(r) == r = 0

is_local_master(r) == r % local_size = 0

\* the directory args.local_out_dir_path of rank r
DirOf(r) == IF shared_fs THEN 0 ELSE r \div local_size

\* faulty variant: the final epoch is forgotten
is_val_on_cadence_only(e) == (e + 1) % SaveEvery = 0

is_val_and_also_saving(e) == (e + 1) % SaveEvery = 0 \/ (e + 1) = args_ep

\* faulty variant: the global step is counted from the resumed epoch
GItSinceResume(e, i) == (e - start_ep) * iters_train + i

\* g_it = ep * iters_train + it
GIt(e, i) == e * iters_train + i

\* line 201: stepping = (g_it + 1) % args.ac == 0.  args.ac is fixed for the run,
\* so the flag of a call is this function of its g_it
Stepping(g, ac) == (g + 1) % ac = 0

\* faulty variant: a tie counts as an improvement
BestUpdatedOnTie(best, v) == best >= v

\* best_updated = best_val_loss_tail > val_loss_tail
BestUpdated(best, v) == best > v

\* faulty variant: the epoch just completed is stored instead of the next one
CkptRecordSameEpoch(e) == [epoch |-> e, iter |-> 0]

\* the record torch.save writes
CkptRecord(e) == [epoch |-> e + 1, iter |-> 0]

NoFile == [st |-> "absent", epoch |-> 0, iter |-> 0, wr |-> {}, by |-> {}, run |-> FALSE]

\* a collective completes for r once every rank has entered as many as r has
AllArrived(r) == \A q \in Ranks : arrived[q] >= arrived[r]

\* validation tail-loss of the checkpoint a resumed run finds in ar-ckpt-best.pth,
\* in tenths: a value with reportable losses below it, equal to it and above it
PriorLossVals == {15}

\* no MetricLogger exists before the first call of train_one_ep
NoMe == [ep |-> -1, n |-> 0]

\* faulty variant: one accumulator is kept over the epochs
MetricLoggerKept(old, e) == [old EXCEPT !.ep = e]

\* lines 147-154: train_one_ep builds a new MetricLogger with new meters on every
\* call; whatever the previous epoch accumulated is dropped
MetricLogger(old, e) == [ep |-> e, n |-> 0]

\* what auto_resume can return as start_ep: 0 on a cold start, else the epoch field
\* of a checkpoint this driver wrote (line 311, under the condition of line 296): a
\* multiple of the save cadence, or the total of the run that wrote it (taken to be
\* this run's args.ep)
ResumeEps(total) == {e \in 0 .. MaxEp : e % SaveEvery = 0 \/ e = total}

InitDriver ==
    /\ world_size \in 1 .. MaxWorld
    /\ local_size \in {n \in 1 .. world_size : world_size % n = 0}
    /\ shared_fs \in BOOLEAN
    /\ (world_size = local_size => shared_fs)
    /\ args_ep \in 1 .. MaxEp
    /\ start_ep \in ResumeEps(args_ep)
    /\ iters_train \in 1 .. MaxIters
    /\ start_it \in (IF start_ep = 0 THEN {0} ELSE 0 .. (iters_train - 1))
    /\ pc = [r \in Ranks |-> "for"]
    /\ ep = [r \in Ranks |-> start_ep]
    /\ it = [r \in Ranks |-> 0]
    /\ best_val_loss_tail = [r \in Ranks |-> InitBestVal]
    /\ val_loss_tail = [r \in Ranks |-> 0]
    /\ best_updated = [r \in Ranks |-> FALSE]
    /\ arrived = [r \in Ranks |-> 0]
    /\ cur_val = [ep |-> -1, loss |-> 0]
    /\ last_ckpt = [d \in Dirs |->
          IF start_ep = 0 THEN NoFile
          ELSE [NoFile EXCEPT !.st = "complete", !.epoch = start_ep, !.iter = start_it]]
    /\ best_ckpt = last_ckpt
    /\ calls = [r \in Ranks |-> << >>]
    /\ eps_run = [r \in Ranks |-> << >>]
    /\ evals = [r \in Ranks |-> {}]
    /\ saved = [r \in Ranks |-> {}]
    /\ old_best = [r \in Ranks |-> InitBestVal]
    /\ ex_pos = [r \in Ranks |-> 0]
    /\ ex_wr = [r \in Ranks |-> {}]
    /\ final_flush = [r \in Ranks |-> FALSE]
    /\ exc = [r \in Ranks |-> "none"]
    /\ finalized = [r \in Ranks |-> FALSE]
    /\ me = [r \in Ranks |-> NoMe]
    /\ stats_read = [r \in Ranks |-> [ep |-> -1, n |-> 0, ranks |-> {}]]
    /\ last_call = [r \in Ranks |-> [ep |-> -1, it |-> -1, g_it |-> -1]]
    /\ \E v \in PriorLossVals :
          best_meta = [d \in Dirs |-> [held |-> start_ep > 0,
                                      loss |-> IF start_ep > 0 THEN v ELSE 0,
                                      pair |-> FALSE]]

\* args.pg = 0: the progressive schedule is off (line 191), no iteration yet
NoPgArgs == [pg |-> 0, wp |-> 0, pg0 |-> 0, n |-> 1]
NoPgRun == [g_it |-> -1, prog_si |-> -1, prev_si |-> -1, raised |-> FALSE]

\* lines 269-270: the trackers before the first epoch; best_val_loss_tail is the
\* variable of that name
InitBest ==
    [L_mean |-> InitBestVal, L_tail |-> InitBestVal,
     acc_mean |-> InitBestAcc, acc_tail |-> InitBestAcc,
     val_loss_mean |-> InitBestVal,
     val_acc_mean |-> InitBestAcc, val_acc_tail |-> InitBestAcc]
NoSeen == [train |-> {}, val |-> {}]

\* Spec follows the driver; the schedule and the trackers of auxvars are followed
\* by SpecPg and SpecBest and stay as they are here
Init ==
    /\ InitDriver
    /\ pg_args = NoPgArgs /\ pg_run = NoPgRun
    /\ bests = InitBest /\ seen = NoSeen

\* the files a dying or raising process leaves behind: its handles are closed
CloseHandles(f, r) == [d \in DOMAIN f |-> [f[d] EXCEPT !.wr = @ \ {r}]]

\* faulty variant: every epoch is entered at the resumed iteration
StartItArgEveryEpoch(e) == start_it

\* line 281: the start_it passed to train_one_ep, "start_it if ep == start_ep else 0";
\* log_every (line 166) yields the indices from it on, line 167 drops any below it
StartItArg(e) == IF e = start_ep THEN start_it ELSE 0

\* faulty variant: the test of line 306 is inverted
AfterEvaluateInverted(r) == IF is_local_master(r) THEN "barrier" ELSE "save"

\* where a rank goes after lines 298-304: only the local master writes
AfterEvaluate(r) == IF is_local_master(r) THEN "save" ELSE "barrier"

\* where the writer goes after torch.save returned
AfterSave(r) == IF best_updated[r] THEN "copy" ELSE "barrier"

\* faulty variant: the save block is entered without the validation pass
AfterStatsNoEvaluate(e) == IF is_val_and_also_saving(e) THEN "save" ELSE "ep_log"

\* where a rank goes after line 296
AfterStats(e) == IF is_val_and_also_saving(e) THEN "evaluate" ELSE "ep_log"

\* lines 273-280 and 146-165: the loop head, tb_lg.set_step, the call of
\* train_one_ep up to its loop
ForEp(r) ==
    /\ pc[r] = "for"
    /\ IF ep[r] < args_ep
       THEN IF HasTbLg(r)
            THEN /\ pc' = [pc EXCEPT ![r] = "train_one_ep"]
                 /\ it' = [it EXCEPT ![r] = StartItArg(ep[r])]
                 /\ eps_run' = [eps_run EXCEPT ![r] = Append(@, ep[r])]
                 /\ me' = [me EXCEPT ![r] = MetricLogger(@, ep[r])]
                 /\ exc' = exc
            ELSE /\ pc' = [pc EXCEPT ![r] = "raised"]
                 /\ exc' = [exc EXCEPT ![r] = "AttributeError"]
                 /\ UNCHANGED <<it, eps_run, me>>
       ELSE /\ pc' = [pc EXCEPT ![r] = "finish"]
            /\ UNCHANGED <<it, eps_run, exc, me>>
    /\ UNCHANGED <<cfgvars, auxvars, stats_read, last_call, best_meta, ep, best_val_loss_tail, val_loss_tail, best_updated, arrived,
                   cur_val, last_ckpt, best_ckpt, calls, evals, saved, old_best,
                   ex_pos, ex_wr, final_flush, finalized>>

\* lines 177-230: one iteration of train_one_ep
TrainStep(r) ==
    /\ pc[r] = "train_one_ep"
    /\ it[r] < iters_train
    /\ calls' = [calls EXCEPT ![r] =
                    IF it[r] < StartItArg(ep[r]) THEN @ ELSE Append(@, GIt(ep[r], it[r]))]
    /\ it' = [it EXCEPT ![r] = @ + 1]
    /\ me' = [me EXCEPT ![r] =
                 IF it[r] < StartItArg(ep[r]) THEN @ ELSE [@ EXCEPT !.n = @ + 1]]
    /\ last_call' = [last_call EXCEPT ![r] =
                 IF it[r] < StartItArg(ep[r]) THEN @
                 ELSE [ep |-> ep[r], it |-> it[r], g_it |-> GIt(ep[r], it[r])]]
    /\ UNCHANGED <<cfgvars, auxvars, stats_read, best_meta, pc, ep, best_val_loss_tail, val_loss_tail, best_updated, arrived,
                   cur_val, last_ckpt, best_ckpt, eps_run, evals, saved, old_best,
                   ex_pos, ex_wr, final_flush, exc, finalized>>

\* lines 232-233: the loop is exhausted, me.synchronize_between_processes() is entered
SyncEnter(r) ==
    /\ pc[r] = "train_one_ep"
    /\ it[r] >= iters_train
    /\ pc' = [pc EXCEPT ![r] = "sync"]
    /\ arrived' = [arrived EXCEPT ![r] = @ + 1]
    /\ UNCHANGED <<cfgvars, auxvars, ghostvars, ep, it, best_val_loss_tail, val_loss_tail, best_updated,
                   cur_val, last_ckpt, best_ckpt, calls, eps_run, evals, saved, old_best,
                   ex_pos, ex_wr, final_flush, exc, finalized>>

\* lines 233-296: the synchronisation completes, train_one_ep returns, the epoch's
\* statistics are read and is_val_and_also_saving is decided
EpochStats(r) ==
    /\ pc[r] = "sync"
    /\ AllArrived(r)
    /\ pc' = [pc EXCEPT ![r] = AfterStats(ep[r])]
    /\ stats_read' = [stats_read EXCEPT ![r] =
          [ep |-> me[r].ep, n |-> me[r].n,
           ranks |-> {q \in Ranks : arrived[q] >= arrived[r]}]]
    /\ UNCHANGED <<cfgvars, auxvars, me, last_call, best_meta, ep, it, best_val_loss_tail, val_loss_tail, best_updated, arrived,
                   cur_val, last_ckpt, best_ckpt, calls, eps_run, evals, saved, old_best,
                   ex_pos, ex_wr, final_flush, exc, finalized>>

\* line 298: trainer.evaluate(ld_val) is called; it ends in a cross-rank reduction
EvaluateEnter(r) ==
    /\ pc[r] = "evaluate"
    /\ pc' = [pc EXCEPT ![r] = "eval_wait"]
    /\ arrived' = [arrived EXCEPT ![r] = @ + 1]
    /\ UNCHANGED <<cfgvars, auxvars, ghostvars, ep, it, best_val_loss_tail, val_loss_tail, best_updated,
                   cur_val, last_ckpt, best_ckpt, calls, eps_run, evals, saved, old_best,
                   ex_pos, ex_wr, final_flush, exc, finalized>>

\* lines 298-306: evaluate returns the reduced numbers (the same on every rank),
\* best_updated and the best trackers are set
EvaluateReturn(r) ==
    /\ pc[r] = "eval_wait"
    /\ AllArrived(r)
    /\ \E v \in (IF cur_val.ep = ep[r] THEN {cur_val.loss} ELSE LossVals) :
          /\ cur_val' = [ep |-> ep[r], loss |-> v]
          /\ val_loss_tail' = [val_loss_tail EXCEPT ![r] = v]
          /\ best_updated' = [best_updated EXCEPT ![r] = BestUpdated(best_val_loss_tail[r], v)]
          /\ best_val_loss_tail' = [best_val_loss_tail EXCEPT ![r] = Min(@, v)]
          /\ ex_pos' = [ex_pos EXCEPT ![r] =
                IF @ >= 0 /\ @ < Len(Example) /\ Example[@ + 1] = v THEN @ + 1 ELSE -1]
    /\ old_best' = [old_best EXCEPT ![r] = best_val_loss_tail[r]]
    /\ evals' = [evals EXCEPT ![r] = @ \cup {ep[r]}]
    /\ pc' = [pc EXCEPT ![r] = AfterEvaluate(r)]
    /\ UNCHANGED <<cfgvars, auxvars, ghostvars, ep, it, arrived, last_ckpt, best_ckpt, calls, eps_run, saved,
                   ex_wr, final_flush, exc, finalized>>

\* line 310: torch.save opens ar-ckpt-last.pth for writing, which truncates it
TorchSaveOpen(r) ==
    /\ pc[r] = "save"
    /\ last_ckpt' = [last_ckpt EXCEPT ![DirOf(r)] =
          [st |-> "partial", epoch |-> 0, iter |-> 0,
           wr |-> @.wr \cup {r}, by |-> @.by \cup {r}, run |-> TRUE]]
    /\ pc' = [pc EXCEPT ![r] = "saving"]
    /\ UNCHANGED <<cfgvars, auxvars, ghostvars, ep, it, best_val_loss_tail, val_loss_tail, best_updated, arrived,
                   cur_val, best_ckpt, calls, eps_run, evals, saved, old_best,
                   ex_pos, ex_wr, final_flush, exc, finalized>>

\* lines 310-316: torch.save has written the whole record and closed the file
TorchSaveClose(r) ==
    /\ pc[r] = "saving"
    /\ last_ckpt' = [last_ckpt EXCEPT ![DirOf(r)] =
          [@ EXCEPT !.st = "complete", !.epoch = CkptRecord(ep[r]).epoch,
                    !.iter = CkptRecord(ep[r]).iter, !.wr = @ \ {r}]]
    /\ saved' = [saved EXCEPT ![r] = @ \cup {ep[r]}]
    /\ pc' = [pc EXCEPT ![r] = AfterSave(r)]
    /\ UNCHANGED <<cfgvars, auxvars, ghostvars, ep, it, best_val_loss_tail, val_loss_tail, best_updated, arrived,
                   cur_val, best_ckpt, calls, eps_run, evals, old_best,
                   ex_pos, ex_wr, final_flush, exc, finalized>>

\* line 317: shutil.copy opens ar-ckpt-best.pth for writing, which truncates it
CopyOpen(r) ==
    /\ pc[r] = "copy"
    /\ best_ckpt' = [best_ckpt EXCEPT ![DirOf(r)] =
          [st |-> "partial", epoch |-> 0, iter |-> 0,
           wr |-> @.wr \cup {r}, by |-> @.by \cup {r}, run |-> TRUE]]
    /\ ex_wr' = [ex_wr EXCEPT ![r] = IF ex_pos[r] > 0 THEN @ \cup {ex_pos[r]} ELSE @]
    /\ pc' = [pc EXCEPT ![r] = "copying"]
    /\ UNCHANGED <<cfgvars, auxvars, ghostvars, ep, it, best_val_loss_tail, val_loss_tail, best_updated, arrived,
                   cur_val, last_ckpt, calls, eps_run, evals, saved, old_best,
                   ex_pos, final_flush, exc, finalized>>

\* line 317: shutil.copy has copied the bytes of ar-ckpt-last.pth and closed the file
CopyClose(r) ==
    /\ pc[r] = "copying"
    /\ best_ckpt' = [best_ckpt EXCEPT ![DirOf(r)] =
          [@ EXCEPT !.st = last_ckpt[DirOf(r)].st, !.epoch = last_ckpt[DirOf(r)].epoch,
                    !.iter = last_ckpt[DirOf(r)].iter, !.wr = @ \ {r}]]
    /\ best_meta' = [best_meta EXCEPT ![DirOf(r)] =
          [held |-> TRUE, loss |-> val_loss_tail[r], pair |-> TRUE]]
    /\ pc' = [pc EXCEPT ![r] = "barrier"]
    /\ UNCHANGED <<cfgvars, auxvars, me, stats_read, last_call, ep, it, best_val_loss_tail, val_loss_tail, best_updated, arrived,
                   cur_val, last_ckpt, calls, eps_run, evals, saved, old_best,
                   ex_pos, ex_wr, final_flush, exc, finalized>>

\* line 319: dist.barrier() is entered
BarrierEnter(r) ==
    /\ pc[r] = "barrier"
    /\ pc' = [pc EXCEPT ![r] = "barrier_wait"]
    /\ arrived' = [arrived EXCEPT ![r] = @ + 1]
    /\ UNCHANGED <<cfgvars, auxvars, ghostvars, ep, it, best_val_loss_tail, val_loss_tail, best_updated,
                   cur_val, last_ckpt, best_ckpt, calls, eps_run, evals, saved, old_best,
                   ex_pos, ex_wr, final_flush, exc, finalized>>

\* line 319: dist.barrier() returns
BarrierPass(r) ==
    /\ pc[r] = "barrier_wait"
    /\ AllArrived(r)
    /\ pc' = [pc EXCEPT ![r] = "ep_log"]
    /\ UNCHANGED <<cfgvars, auxvars, ghostvars, ep, it, best_val_loss_tail, val_loss_tail, best_updated, arrived,
                   cur_val, last_ckpt, best_ckpt, calls, eps_run, evals, saved, old_best,
                   ex_pos, ex_wr, final_flush, exc, finalized>>

\* lines 321-324: the epoch's summary, tb_lg.update, args.dump_log(), tb_lg.flush().
\* val_loss_tail and best_updated are dead here (line 298 and 299 assign them before
\* the next read), so the model forgets them, and the validation result with them.
EpLog(r) ==
    /\ pc[r] = "ep_log"
    /\ ep' = [ep EXCEPT ![r] = @ + 1]
    /\ pc' = [pc EXCEPT ![r] = "for"]
    /\ val_loss_tail' = [val_loss_tail EXCEPT ![r] = 0]
    /\ best_updated' = [best_updated EXCEPT ![r] = FALSE]
    /\ old_best' = [old_best EXCEPT ![r] = best_val_loss_tail[r]]
    /\ cur_val' = [ep |-> -1, loss |-> 0]
    /\ UNCHANGED <<cfgvars, auxvars, ghostvars, it, best_val_loss_tail, arrived,
                   last_ckpt, best_ckpt, calls, eps_run, evals, saved,
                   ex_pos, ex_wr, final_flush, exc, finalized>>

\* lines 326-332: after the loop: args.dump_log(); tb_lg.flush(); tb_lg.close();
\* then dist.barrier() is entered
Finish(r) ==
    /\ pc[r] = "finish"
    /\ IF HasTbLg(r)
       THEN /\ final_flush' = [final_flush EXCEPT ![r] = TRUE]
            /\ pc' = [pc EXCEPT ![r] = "final_barrier"]
            /\ arrived' = [arrived EXCEPT ![r] = @ + 1]
            /\ exc' = exc
       ELSE /\ pc' = [pc EXCEPT ![r] = "raised"]
            /\ exc' = [exc EXCEPT ![r] = "AttributeError"]
            /\ UNCHANGED <<final_flush, arrived>>
    /\ UNCHANGED <<cfgvars, auxvars, ghostvars, ep, it, best_val_loss_tail, val_loss_tail, best_updated,
                   cur_val, last_ckpt, best_ckpt, calls, eps_run, evals, saved, old_best,
                   ex_pos, ex_wr, finalized>>

\* line 332: the last dist.barrier() returns and main_training returns
Return(r) ==
    /\ pc[r] = "final_barrier"
    /\ AllArrived(r)
    /\ pc' = [pc EXCEPT ![r] = "returned"]
    /\ UNCHANGED <<cfgvars, auxvars, ghostvars, ep, it, best_val_loss_tail, val_loss_tail, best_updated, arrived,
                   cur_val, last_ckpt, best_ckpt, calls, eps_run, evals, saved, old_best,
                   ex_pos, ex_wr, final_flush, exc, finalized>>

\* lines 355-358: the finally block of __main__: dist.finalize(), then the process exits
Finally(r) ==
    /\ pc[r] \in {"returned", "raised"}
    /\ finalized' = [finalized EXCEPT ![r] = TRUE]
    /\ pc' = [pc EXCEPT ![r] = IF pc[r] = "returned" THEN "exit_ok" ELSE "exit_err"]
    /\ UNCHANGED <<cfgvars, auxvars, ghostvars, ep, it, best_val_loss_tail, val_loss_tail, best_updated, arrived,
                   cur_val, last_ckpt, best_ckpt, calls, eps_run, evals, saved, old_best,
                   ex_pos, ex_wr, final_flush, exc>>

\* an external call raises: trainer.train_step, trainer.evaluate, torch.save, shutil.copy
Throw(r) ==
    /\ \/ pc[r] = "train_one_ep" /\ it[r] < iters_train
       \/ pc[r] \in {"eval_wait", "saving", "copying"}
    /\ pc' = [pc EXCEPT ![r] = "raised"]
    /\ exc' = [exc EXCEPT ![r] = "external"]
    /\ last_ckpt' = CloseHandles(last_ckpt, r)
    /\ best_ckpt' = CloseHandles(best_ckpt, r)
    /\ UNCHANGED <<cfgvars, auxvars, ghostvars, ep, it, best_val_loss_tail, val_loss_tail, best_updated, arrived,
                   cur_val, calls, eps_run, evals, saved, old_best,
                   ex_pos, ex_wr, final_flush, finalized>>

\* the process is killed from outside (signal, preemption) while it has a
\* checkpoint file open.  Anywhere else a kill changes no file and is, for the
\* other ranks, a process that takes no further step.
Kill(r) ==
    /\ pc[r] \in {"saving", "copying"}
    /\ pc' = [pc EXCEPT ![r] = "killed"]
    /\ last_ckpt' = CloseHandles(last_ckpt, r)
    /\ best_ckpt' = CloseHandles(best_ckpt, r)
    /\ UNCHANGED <<cfgvars, auxvars, ghostvars, ep, it, best_val_loss_tail, val_loss_tail, best_updated, arrived,
                   cur_val, calls, eps_run, evals, saved, old_best,
                   ex_pos, ex_wr, final_flush, exc, finalized>>

Next ==
    \/ \E r \in Ranks : ForEp(r)
    \/ \E r \in Ranks : TrainStep(r)
    \/ \E r \in Ranks : SyncEnter(r)
    \/ \E r \in Ranks : EpochStats(r)
    \/ \E r \in Ranks : EvaluateEnter(r)
    \/ \E r \in Ranks : EvaluateReturn(r)
    \/ \E r \in Ranks : TorchSaveOpen(r)
    \/ \E r \in Ranks : TorchSaveClose(r)
    \/ \E r \in Ranks : CopyOpen(r)
    \/ \E r \in Ranks : CopyClose(r)
    \/ \E r \in Ranks : BarrierEnter(r)
    \/ \E r \in Ranks : BarrierPass(r)
    \/ \E r \in Ranks : EpLog(r)
    \/ \E r \in Ranks : Finish(r)
    \/ \E r \in Ranks : Return(r)
    \/ \E r \in Ranks : Finally(r)
    \/ \E r \in Ranks : Throw(r)
    \/ \E r \in Ranks : Kill(r)

Spec == Init /\ [][Next]_vars

\* ---- the progressive schedule, lines 187-199
\* args.pg and args.wp are fractions: pg_args.pg and pg_args.wp count PgDen-ths
\* (of the run, of an epoch), and the comparisons and the quotient of lines 192-198
\* are evaluated exactly on numerators over PgDen
PgDen == 4
MaxPg == 5
MaxWp == 6
MaxPatch == 3
MaxPgEp == 3

\* every variable of the driver but its configuration
drivervars == <<pc, ep, it, best_val_loss_tail, val_loss_tail, best_updated, arrived,
                cur_val, last_ckpt, best_ckpt, calls, eps_run, evals, saved, old_best,
                ex_pos, ex_wr, final_flush, exc, finalized, ghostvars>>

\* line 161: max_it = args.ep * iters_train
MaxIt == args_ep * iters_train
\* line 187: wp_it = args.wp * iters_train, times PgDen
WpIt == pg_args.wp * iters_train
\* line 194: max_it * args.pg, times PgDen
PgEnd == MaxIt * pg_args.pg
\* len(args.patch_nums) - 1
LastSi == pg_args.n - 1

Max(a, b) == IF a > b THEN a ELSE b

\* round(n / d) of Python 3 for n >= 0, d > 0: to the nearest integer, a tie to the
\* even one
RoundHalfEven(n, d) ==
    LET q == n \div d
        m == n % d
    IN  IF 2 * m < d THEN q
        ELSE IF 2 * m > d THEN q + 1
        ELSE IF q % 2 = 0 THEN q ELSE q + 1

\* line 192 and 194: the two tests that keep g out of the interpolation
InWarmup(g) == PgDen * g <= WpIt
PastPgEnd(g) == PgDen * g >= PgEnd

\* line 197 divides by max_it * args.pg - wp_it
DividesByZero(g) ==
    pg_args.pg # 0 /\ ~InWarmup(g) /\ ~PastPgEnd(g) /\ PgEnd - WpIt = 0

\* faulty variant: the end of the schedule is tested before the warmup
ProgSiEndFirst(g) ==
    IF pg_args.pg = 0 THEN -1
    ELSE IF PastPgEnd(g) THEN LastSi
    ELSE IF InWarmup(g) THEN pg_args.pg0
    ELSE LET delta == LastSi - pg_args.pg0
             d == PgEnd - WpIt
             c == Min(Max(PgDen * g - WpIt, 0), d)
         IN  pg_args.pg0 + RoundHalfEven(c * delta, d)

\* lines 191-199: prog_si at global step g
ProgSi(g) ==
    IF pg_args.pg = 0 THEN -1
    ELSE IF InWarmup(g) THEN pg_args.pg0
    ELSE IF PastPgEnd(g) THEN LastSi
    ELSE LET delta == LastSi - pg_args.pg0
             d == PgEnd - WpIt
             c == Min(Max(PgDen * g - WpIt, 0), d)
         IN  pg_args.pg0 + RoundHalfEven(c * delta, d)

\* a single process started cold, with the progressive schedule set by any
\* args.pg in 0 .. MaxPg/PgDen, any warmup of 0 .. MaxWp/PgDen epochs, any number of
\* patch sizes and any first stage among them
InitPg ==
    /\ InitDriver
    /\ world_size = 1 /\ start_ep = 0 /\ args_ep <= MaxPgEp
    /\ pg_args \in [pg : 0 .. MaxPg, wp : 0 .. MaxWp, pg0 : 0 .. (MaxPatch - 1),
                    n : 1 .. MaxPatch]
    /\ pg_args.pg0 <= LastSi
    /\ pg_run = NoPgRun
    /\ bests = InitBest /\ seen = NoSeen

\* lines 178-199 of the next iteration: g_it (consecutive from 0 in a cold run) and
\* prog_si; a division by zero at line 197 raises
PgStep ==
    /\ ~pg_run.raised
    /\ pg_run.g_it + 1 < MaxIt
    /\ LET g == pg_run.g_it + 1
       IN  pg_run' = IF DividesByZero(g)
                     THEN [pg_run EXCEPT !.g_it = g, !.raised = TRUE]
                     ELSE [g_it |-> g, prog_si |-> ProgSi(g),
                           prev_si |-> pg_run.prog_si, raised |-> FALSE]
    /\ UNCHANGED <<cfgvars, drivervars, pg_args, bests, seen>>

NextPg == PgStep

SpecPg == InitPg /\ [][NextPg]_vars

\* ---- the best-so-far trackers, lines 269-301
MaxBestEp == 11

\* per-epoch training statistics train_one_ep may return (line 284): losses in
\* tenths, accuracies in percent; the tail pair is -1 in an epoch that measured none
TrainStats ==
    {[Lm |-> 30, Lt |-> 40, Accm |-> 50, Acct |-> 40],
     [Lm |-> 20, Lt |-> -1, Accm |-> 60, Acct |-> -1],
     [Lm |-> 25, Lt |-> 35, Accm |-> 45, Acct |-> 55]}
\* what evaluate may return (line 298)
ValStats ==
    {[Lm |-> 18, Lt |-> 20, Accm |-> 40, Acct |-> 30],
     [Lm |-> 15, Lt |-> 12, Accm |-> 35, Acct |-> 45],
     [Lm |-> 12, Lt |-> 18, Accm |-> 50, Acct |-> 35]}

\* faulty variant: the tail trackers take every epoch's value
TailCountsAlways(L_tail) == TRUE

\* line 286: if L_tail != -1
TailCounts(L_tail) == L_tail # -1

\* lines 285-286
BestAfterTrain(b, s) ==
    [b EXCEPT !.L_mean = Min(@, s.Lm), !.acc_mean = Max(@, s.Accm),
              !.L_tail = IF TailCounts(s.Lt) THEN Min(@, s.Lt) ELSE @,
              !.acc_tail = IF TailCounts(s.Lt) THEN Max(@, s.Acct) ELSE @]

\* lines 300-301, but for best_val_loss_tail
BestAfterVal(b, v) ==
    [b EXCEPT !.val_loss_mean = Min(@, v.Lm),
              !.val_acc_mean = Max(@, v.Accm), !.val_acc_tail = Max(@, v.Acct)]

\* a single process started cold
InitBestRun ==
    /\ InitDriver
    /\ world_size = 1 /\ start_ep = 0 /\ args_ep <= MaxBestEp /\ iters_train = 1
    /\ pg_args = NoPgArgs /\ pg_run = NoPgRun
    /\ bests = InitBest /\ seen = NoSeen

\* lines 273-296: an epoch is trained, its statistics are read and the training
\* trackers updated
BestTrainEp(r) ==
    /\ pc[r] = "for"
    /\ ep[r] < args_ep
    /\ \E s \in TrainStats :
          /\ bests' = BestAfterTrain(bests, s)
          /\ seen' = [seen EXCEPT !.train = @ \cup {s}]
    /\ pc' = [pc EXCEPT ![r] = AfterStats(ep[r])]
    /\ UNCHANGED <<cfgvars, pg_args, pg_run, ep, it, best_val_loss_tail, val_loss_tail,
                   best_updated, arrived, cur_val, last_ckpt, best_ckpt, calls, eps_run,
                   evals, saved, old_best, ex_pos, ex_wr, final_flush, exc, finalized,
                   ghostvars>>

\* lines 298-301: the validation pass and the validation trackers
BestEvaluate(r) ==
    /\ pc[r] = "evaluate"
    /\ \E v \in ValStats :
          /\ bests' = BestAfterVal(bests, v)
          /\ best_val_loss_tail' = [best_val_loss_tail EXCEPT ![r] = Min(@, v.Lt)]
          /\ seen' = [seen EXCEPT !.val = @ \cup {v}]
    /\ pc' = [pc EXCEPT ![r] = "ep_log"]
    /\ UNCHANGED <<cfgvars, pg_args, pg_run, ep, it, val_loss_tail,
                   best_updated, arrived, cur_val, last_ckpt, best_ckpt, calls, eps_run,
                   evals, saved, old_best, ex_pos, ex_wr, final_flush, exc, finalized,
                   ghostvars>>

\* lines 306-324 leave the trackers alone; the next epoch
BestNextEp(r) ==
    /\ pc[r] = "ep_log"
    /\ ep' = [ep EXCEPT ![r] = @ + 1]
    /\ pc' = [pc EXCEPT ![r] = "for"]
    /\ UNCHANGED <<cfgvars, auxvars, it, best_val_loss_tail, val_loss_tail,
                   best_updated, arrived, cur_val, last_ckpt, best_ckpt, calls, eps_run,
                   evals, saved, old_best, ex_pos, ex_wr, final_flush, exc, finalized,
                   ghostvars>>

NextBest ==
    \/ \E r \in Ranks : BestTrainEp(r)
    \/ \E r \in Ranks : BestEvaluate(r)
    \/ \E r \in Ranks : BestNextEp(r)

SpecBest == InitBestRun /\ [][NextBest]_vars

\* ------------------------------------------------------------------------
\* Properties
\* ------------------------------------------------------------------------

\* no rank was killed and no external call raised
NoExternalFailure == \A q \in Ranks : exc[q] # "external" /\ pc[q] # "killed"

\* rank r has left the save block of epoch e (or never had one to enter)
PastEpoch(r, e) == ep[r] > e \/ (ep[r] = e /\ pc[r] = "ep_log")

\* e is an epoch of this run whose end validates and saves, stated from line 296
SavingEpoch(e) ==
    e >= start_ep /\ e < args_ep /\ ((e + 1) % SaveEvery = 0 \/ e + 1 = args_ep)

\* the ranks that write checkpoints: local rank 0 of each node
Writer(w) == w \in Ranks /\ w % local_size = 0

\* C1 (as claimed): along the example sequence 2.0, 1.5, 1.8, 1.2 the best file is
\* overwritten only at the second and the fourth validation, not at the first.
C1_OnlyAtSecondAndFourth == \A r \in Ranks : ex_wr[r] \subseteq {2, 4}

\* C1 (amended): the best file is opened for writing only in an epoch whose
\* validation tail-loss is strictly below the best so far, which starts at 999;
\* along the example sequence it is written exactly at the first, second and fourth
\* validation (2.0, 1.5, 1.2) and not at the third (1.8).
C1_BestPolicy ==
    \A r \in Ranks :
        /\ pc[r] \in {"copy", "copying"} => val_loss_tail[r] < old_best[r]
        /\ ex_wr[r] \subseteq {1, 2, 4}
        /\ (ex_pos[r] = 4 /\ pc[r] \in {"barrier", "barrier_wait", "ep_log"}
               => ex_wr[r] = {1, 2, 4})
        /\ (ex_pos[r] = 3 /\ pc[r] \in {"barrier", "barrier_wait", "ep_log"}
               => ex_wr[r] = {1, 2})

C1_Witness ==
    \E r \in Ranks : ex_pos[r] = 4 /\ pc[r] = "ep_log" /\ ex_wr[r] = {1, 2, 4}

\* C2: a rank validates (and, on a writer, saves) at the end of epoch e exactly when
\* (e+1) is a multiple of 10 or e+1 is the total; a writer that has completed the
\* final epoch has left a complete last checkpoint of that epoch.
C2_SaveCadence ==
    \A r \in Ranks :
        /\ \A e \in evals[r] \cup saved[r] : SavingEpoch(e)
        /\ \A e \in start_ep .. (args_ep - 1) :
              (PastEpoch(r, e) /\ SavingEpoch(e))
                 => (e \in evals[r] /\ (Writer(r) => e \in saved[r]))
        /\ (Writer(r) /\ start_ep < args_ep /\ PastEpoch(r, args_ep - 1))
              => /\ last_ckpt[DirOf(r)].st = "complete"
                 /\ last_ckpt[DirOf(r)].run
                 /\ last_ckpt[DirOf(r)].epoch = args_ep

C2_Witness ==
    \E r \in Ranks :
        /\ pc[r] = "ep_log" /\ ep[r] = args_ep - 1 /\ args_ep % SaveEvery # 0
        /\ evals[r] = {SaveEvery - 1, args_ep - 1}
        /\ last_ckpt[DirOf(r)].epoch = args_ep

C5_BestNeverPartial == \A d \in Dirs : best_ckpt[d].st # "partial"

\* C6 (as claimed): a process that has exited, normally or through an exception,
\* has executed the final tb_lg.flush() and has called dist.finalize().
C6_FlushAndFinalizeOnExit ==
    \A r \in Ranks :
        pc[r] \in {"exit_ok", "exit_err"} => (finalized[r] /\ final_flush[r])

\* the number of train_step calls of a complete run
TotalCalls ==
    IF start_ep < args_ep THEN (args_ep - start_ep) * iters_train - start_it ELSE 0

\* C7: the global steps of a rank's train_step calls are start_ep*iters_train +
\* start_it, then each one greater than the one before, never beyond
\* args.ep*iters_train - 1; a rank that has left the loop has made all of them.
C7_GlobalStepSequential ==
    \A r \in Ranks :
        /\ \A k \in 1 .. Len(calls[r]) :
              calls[r][k] = start_ep * iters_train + start_it + (k - 1)
        /\ Len(calls[r]) <= TotalCalls
        /\ pc[r] \in {"finish", "final_barrier", "returned", "exit_ok"}
              => Len(calls[r]) = TotalCalls
        /\ pc[r] = "train_one_ep" /\ it[r] > StartItArg(ep[r])
              => calls[r][Len(calls[r])] = ep[r] * iters_train + (it[r] - 1)

C7_Witness ==
    \E r \in Ranks :
        /\ pc[r] = "finish" /\ start_it > 0 /\ Len(calls[r]) > iters_train
        /\ calls[r][Len(calls[r])] = args_ep * iters_train - 1

\* rank r will take no further step: it has exited, or it waits in a collective
\* that a rank which has exited never entered
Stopped(r) ==
    \/ pc[r] \in {"exit_ok", "exit_err"}
    \/ /\ pc[r] \in {"sync", "eval_wait", "barrier_wait", "final_barrier"}
       /\ \E q \in Ranks : pc[q] \in {"exit_ok", "exit_err"} /\ arrived[q] < arrived[r]

\* C8 (as claimed): a rank runs the epochs start_ep, start_ep+1, ... in order, each
\* once; unless the run fails from outside, a rank only stops by returning
\* normally, after all epochs up to args.ep-1; with start_ep >= args.ep it stops
\* that way having run no epoch, no validation and no save.
C8_RunsAllEpochsAndTerminates ==
    \A r \in Ranks :
        /\ \A k \in 1 .. Len(eps_run[r]) :
              eps_run[r][k] = start_ep + (k - 1) /\ eps_run[r][k] < args_ep
        /\ (NoExternalFailure /\ Stopped(r))
              => /\ pc[r] = "exit_ok"
                 /\ Len(eps_run[r]) = (IF start_ep < args_ep THEN args_ep - start_ep ELSE 0)
                 /\ (start_ep >= args_ep => evals[r] = {} /\ saved[r] = {})

\* C9: a checkpoint file written in this run holds iteration 0 and an epoch field
\* in 1..args.ep; while the writer is between torch.save and the epoch's summary the
\* last file holds ep+1; the best file holds what some completed save put in last,
\* and right after a copy it equals last.
C9_CheckpointSchema ==
    \A w \in Ranks : Writer(w) =>
        LET l == last_ckpt[DirOf(w)]
            b == best_ckpt[DirOf(w)]
        IN  /\ (l.run /\ l.st = "complete")
                  => (l.iter = 0 /\ l.epoch \in 1 .. args_ep /\ l.epoch - 1 \in saved[w])
            /\ (b.run /\ b.st = "complete")
                  => (b.iter = 0 /\ b.epoch \in 1 .. args_ep /\ b.epoch - 1 \in saved[w])
            /\ (pc[w] \in {"copy", "copying", "barrier", "barrier_wait"}
                   \/ (pc[w] = "ep_log" /\ SavingEpoch(ep[w])))
                  => (l.st = "complete" /\ l.run /\ l.epoch = ep[w] + 1)
            /\ (pc[w] \in {"barrier", "barrier_wait", "ep_log"} /\ best_updated[w])
                  => (b.st = "complete" /\ b.run /\ b.epoch = l.epoch /\ b.iter = l.iter)

C9_Witness ==
    \E w \in Ranks :
        /\ Writer(w) /\ pc[w] = "ep_log"
        /\ best_ckpt[DirOf(w)].run /\ best_ckpt[DirOf(w)].st = "complete"
        /\ last_ckpt[DirOf(w)].run /\ last_ckpt[DirOf(w)].st = "complete"
        /\ best_ckpt[DirOf(w)].epoch < last_ckpt[DirOf(w)].epoch

\* C10: a writer opens the last file for an epoch only after evaluate has returned
\* for that epoch, and when any rank has passed the barrier of a saving epoch,
\* evaluate has returned for that epoch on every rank.
C10_WriteAfterValidation ==
    /\ \A w \in Ranks :
          /\ \A e \in saved[w] : e \in evals[w]
          /\ pc[w] \in {"save", "saving", "copy", "copying"} => ep[w] \in evals[w]
    /\ \A r \in Ranks : \A e \in start_ep .. (args_ep - 1) :
          (SavingEpoch(e) /\ PastEpoch(r, e)) => \A q \in Ranks : e \in evals[q]

C10_Witness ==
    \E r \in Ranks :
        /\ pc[r] = "barrier_wait" /\ ep[r] \in saved[r] /\ ep[r] \in evals[r]
        /\ last_ckpt[DirOf(r)].epoch = ep[r] + 1

\* C11: for every accumulation length N, every train_step call with stepping=true
\* is preceded, since the previous stepping=true call or since the process
\* started, by exactly N-1 calls with stepping=false.
C11_WindowOfExactlyN ==
    \A r \in Ranks : \A ac \in 1 .. MaxAc : \A k \in 1 .. Len(calls[r]) :
        Stepping(calls[r][k], ac) =>
            /\ k >= ac
            /\ \A j \in (k - ac + 1) .. (k - 1) : ~Stepping(calls[r][j], ac)
            /\ (k = ac \/ Stepping(calls[r][k - ac], ac))

\* C14: inside an epoch's iterations the accumulator was built for that epoch and
\* holds exactly the updates of that epoch's iterations so far (none at its start),
\* and once main_training is past line 284 the statistics it holds were read from
\* that epoch's accumulator, with all of the epoch's updates in it, after every
\* rank had entered the synchronisation.
C14_AccumulatorPerEpoch ==
    \A r \in Ranks :
        /\ pc[r] \in {"train_one_ep", "sync"}
              => me[r] = [ep |-> ep[r], n |-> it[r] - StartItArg(ep[r])]
        /\ pc[r] \in {"evaluate", "eval_wait", "save", "saving", "copy", "copying",
                      "barrier", "barrier_wait", "ep_log"}
              => stats_read[r] = [ep |-> ep[r],
                                  n |-> iters_train - StartItArg(ep[r]),
                                  ranks |-> Ranks]

C14_Witness ==
    \E r \in Ranks :
        /\ ep[r] > start_ep /\ pc[r] = "ep_log"
        /\ stats_read[r].ep = ep[r] /\ stats_read[r].n = iters_train /\ iters_train > 1

\* C15 (as claimed): in a run of more than one rank that nothing external
\* disturbs, no rank raises, and a rank only stops by returning normally from
\* main_training, having made every train_step call of every epoch and entered as
\* many collectives as every other rank; in particular none is left waiting.
C15_EveryRankReturns ==
    (world_size > 1 /\ NoExternalFailure) =>
        \A r \in Ranks :
            /\ exc[r] = "none"
            /\ Stopped(r) => /\ pc[r] = "exit_ok"
                             /\ Len(calls[r]) = TotalCalls
                             /\ \A q \in Ranks : arrived[q] = arrived[r]

\* the n-th train_step call (n from 0) of a run that is never interrupted, which
\* starts at epoch 0 and iteration 0: its epoch, iteration index and global step
UninterruptedCall(n) ==
    [ep |-> n \div iters_train, it |-> n % iters_train, g_it |-> n]

\* C16: a process started from the checkpoint of the end of epoch start_ep - 1
\* (iteration 0) makes, as its k-th train_step call, the call number
\* start_ep*iters_train + k - 1 of the uninterrupted run, all of them once it leaves
\* the loop; it validates, and a writer saves, exactly at the epochs from start_ep
\* on at which the uninterrupted run does.  The stepping flag and the progressive
\* stage are functions of the global step and the unchanged arguments.
C16_ResumeSameTrace ==
    start_it = 0 =>
        \A r \in Ranks :
            /\ calls[r] # << >> =>
                  /\ last_call[r] =
                        UninterruptedCall(start_ep * iters_train + Len(calls[r]) - 1)
                  /\ last_call[r].g_it = calls[r][Len(calls[r])]
                  /\ last_call[r].ep < args_ep
            /\ pc[r] = "finish" => Len(calls[r]) = TotalCalls
            /\ \A e \in 0 .. MaxEp + 1 :
                  /\ e \in evals[r] => SavingEpoch(e)
                  /\ e \in saved[r] => SavingEpoch(e)
                  /\ (SavingEpoch(e) /\ PastEpoch(r, e))
                        => (e \in evals[r] /\ (Writer(r) => e \in saved[r]))

C16_Witness ==
    \E r \in Ranks :
        /\ start_ep > 0 /\ start_it = 0 /\ pc[r] = "finish"
        /\ Len(calls[r]) > iters_train /\ iters_train > 1
        /\ Cardinality(saved[r]) > 1

\* C17 (as claimed): whenever ar-ckpt-best.pth held a checkpoint and is being
\* replaced, the validation tail-loss of the replacing checkpoint is strictly lower
\* than that of the checkpoint replaced, in a resumed run as in a cold one.
C17_BestOnlyReplacedByLower ==
    \A w \in Ranks :
        (pc[w] = "copying" /\ best_meta[DirOf(w)].held)
            => val_loss_tail[w] < best_meta[DirOf(w)].loss

\* C18: in a directory in which this run has completed a save together with its
\* copy to best, at least one of the two files holds a complete checkpoint from
\* then on, also after a kill or an exception in the middle of a write; the two
\* files are never open for writing at once, and best is only written while last
\* is complete.
C18_OneFileComplete ==
    \A d \in Dirs :
        /\ best_meta[d].pair
              => (last_ckpt[d].st = "complete" \/ best_ckpt[d].st = "complete")
        /\ ~(last_ckpt[d].wr # {} /\ best_ckpt[d].wr # {})
        /\ best_ckpt[d].wr # {} => last_ckpt[d].st = "complete"

C18_Witness ==
    \E w \in Ranks :
        /\ pc[w] = "killed" /\ best_meta[DirOf(w)].pair
        /\ best_ckpt[DirOf(w)].st = "partial"
        /\ last_ckpt[DirOf(w)].st = "complete"

\* C12 (as claimed): prog_si is -1 when args.pg is 0; otherwise it lies between
\* args.pg0 and the last stage, never decreases from one global step to the next,
\* is args.pg0 at every global step up to the warmup length, is the last stage at
\* every global step >= max_it * args.pg, and line 197 never divides by zero.
C12_ProgSiAsClaimed ==
    /\ ~pg_run.raised
    /\ (pg_run.g_it >= 0 /\ pg_args.pg = 0) => pg_run.prog_si = -1
    /\ (pg_run.g_it >= 0 /\ pg_args.pg # 0) =>
          /\ pg_run.prog_si >= pg_args.pg0 /\ pg_run.prog_si <= pg_args.n - 1
          /\ pg_run.prev_si <= pg_run.prog_si
          /\ PgDen * pg_run.g_it <= pg_args.wp * iters_train
                => pg_run.prog_si = pg_args.pg0
          /\ PgDen * pg_run.g_it >= args_ep * iters_train * pg_args.pg
                => pg_run.prog_si = pg_args.n - 1

\* C12 (amended): as claimed, except that the last stage is reached at the global
\* steps >= max_it * args.pg that lie beyond the warmup; during the warmup prog_si
\* is args.pg0 even past max_it * args.pg.
C12_ProgSi ==
    /\ ~pg_run.raised
    /\ (pg_run.g_it >= 0 /\ pg_args.pg = 0) => pg_run.prog_si = -1
    /\ (pg_run.g_it >= 0 /\ pg_args.pg # 0) =>
          /\ pg_run.prog_si >= pg_args.pg0 /\ pg_run.prog_si <= pg_args.n - 1
          /\ pg_run.prev_si <= pg_run.prog_si
          /\ PgDen * pg_run.g_it <= pg_args.wp * iters_train
                => pg_run.prog_si = pg_args.pg0
          /\ (/\ PgDen * pg_run.g_it >= args_ep * iters_train * pg_args.pg
              /\ PgDen * pg_run.g_it > pg_args.wp * iters_train)
                => pg_run.prog_si = pg_args.n - 1

C12_Witness ==
    /\ pg_args.pg # 0 /\ pg_args.wp > 0
    /\ PgDen * pg_run.g_it > pg_args.wp * iters_train
    /\ PgDen * pg_run.g_it < args_ep * iters_train * pg_args.pg
    /\ pg_run.prog_si > pg_args.pg0 /\ pg_run.prog_si < pg_args.n - 1
    /\ pg_run.prev_si = pg_args.pg0

SetMin(S) == CHOOSE x \in S : \A y \in S : x <= y
SetMax(S) == CHOOSE x \in S : \A y \in S : x >= y

\* no step lowers an accuracy tracker or raises a loss tracker
NeverRolledBack ==
    /\ bests'.L_mean <= bests.L_mean /\ bests'.L_tail <= bests.L_tail
    /\ bests'.acc_mean >= bests.acc_mean /\ bests'.acc_tail >= bests.acc_tail
    /\ bests'.val_loss_mean <= bests.val_loss_mean
    /\ bests'.val_acc_mean >= bests.val_acc_mean
    /\ bests'.val_acc_tail >= bests.val_acc_tail
    /\ \A r \in Ranks : best_val_loss_tail'[r] <= best_val_loss_tail[r]

\* each tracker is the least (loss) or greatest (accuracy) of the per-epoch values
\* seen so far
ExtremesOfSeen ==
    /\ seen.train # {} =>
          /\ bests.L_mean = SetMin({s.Lm : s \in seen.train})
          /\ bests.L_tail = SetMin({s.Lt : s \in seen.train})
          /\ bests.acc_mean = SetMax({s.Accm : s \in seen.train})
          /\ bests.acc_tail = SetMax({s.Acct : s \in seen.train})
    /\ seen.val # {} =>
          /\ bests.val_loss_mean = SetMin({v.Lm : v \in seen.val})
          /\ \A r \in Ranks : best_val_loss_tail[r] = SetMin({v.Lt : v \in seen.val})
          /\ bests.val_acc_mean = SetMax({v.Accm : v \in seen.val})
          /\ bests.val_acc_tail = SetMax({v.Acct : v \in seen.val})

\* the same, starting from 999 and -1 and with the tail pair of an epoch left out
\* when its tail-loss is -1
ExtremesOfCounted ==
    LET counted == {s \in seen.train : s.Lt # -1}
    IN  /\ bests.L_mean = SetMin({InitBestVal} \cup {s.Lm : s \in seen.train})
        /\ bests.L_tail = SetMin({InitBestVal} \cup {s.Lt : s \in counted})
        /\ bests.acc_mean = SetMax({InitBestAcc} \cup {s.Accm : s \in seen.train})
        /\ bests.acc_tail = SetMax({InitBestAcc} \cup {s.Acct : s \in counted})
        /\ bests.val_loss_mean = SetMin({InitBestVal} \cup {v.Lm : v \in seen.val})
        /\ \A r \in Ranks :
              best_val_loss_tail[r] = SetMin({InitBestVal} \cup {v.Lt : v \in seen.val})
        /\ bests.val_acc_mean = SetMax({InitBestAcc} \cup {v.Accm : v \in seen.val})
        /\ bests.val_acc_tail = SetMax({InitBestAcc} \cup {v.Acct : v \in seen.val})

\* C13 (as claimed): the trackers are never rolled back, and after every step each
\* equals the running minimum (losses) or maximum (accuracies) of the per-epoch
\* aggregated values seen so far.
C13_RunningExtremes == [][NeverRolledBack /\ ExtremesOfSeen']_vars

\* C13 (amended): the trackers are never rolled back, and after every step each
\* equals the running minimum from 999 (losses) or maximum from -1 (accuracies) of
\* the per-epoch values seen so far, where an epoch whose training tail-loss is -1
\* leaves both training tail trackers as they were.
C13_BestTrackers == [][NeverRolledBack /\ ExtremesOfCounted']_vars

C13_Witness ==
    /\ \E s \in seen.train : s.Lt = -1
    /\ \E s \in seen.train : s.Lt # -1 /\ s.Lt = bests.L_tail
    /\ Cardinality(seen.val) > 1
    /\ bests.L_mean < InitBestVal /\ bests.val_acc_tail > InitBestAcc

====
